---- MODULE Spec2Model ----
(***************************************************************************)
(* Command Dictionary: the tree data provider of the sidebar view.         *)
(*                                                                         *)
(* The provider modelled is the one with bundled defaults and multi-level  *)
(* groups; the repository also holds an earlier, single-level revision.    *)
(*                                                                         *)
(* A JavaScript string is a sequence of one-character strings, so that     *)
(* split, trim, join and localeCompare are computed character by           *)
(* character.  A Map is a sequence of <<key, value>> entries in insertion  *)
(* order.  `undefined` is the value Undefined.                             *)
(***************************************************************************)
EXTENDS Integers, Sequences, FiniteSets, TLC

VARIABLES inspected, element, result, emitted, event

vars == <<inspected, element, result, emitted, event>>

----------------------------------------------------------------------------
(* Values and strings                                                      *)

\* `undefined` where a string may stand (group, description).
Undefined == <<"undefined">>

\* `undefined` where a CommandGroupTree may stand.
UndefinedTree == [undefined |-> TRUE]

\* getChildren called with no element.
NoElement == [kind |-> "undefined"]

Range(s) == {s[i] : i \in 1..Len(s)}

\* String.prototype.trim strips white space; the model's white space is " ".
IsWhiteSpace(c) == c = " "

RECURSIVE trimStart(_)
trimStart(s) ==
  IF s # <<>> /\ IsWhiteSpace(Head(s)) THEN trimStart(Tail(s)) ELSE s

RECURSIVE trimEnd(_)
trimEnd(s) ==
  IF s # <<>> /\ IsWhiteSpace(s[Len(s)])
  THEN trimEnd(SubSeq(s, 1, Len(s) - 1))
  ELSE s

trim(s) == trimEnd(trimStart(s))

\* String.prototype.split(sep) for a one-character separator: the pieces
\* between the separators, empty pieces kept.
RECURSIVE split(_, _)
split(s, sep) ==
  IF \A i \in 1..Len(s) : s[i] # sep
  THEN <<s>>
  ELSE LET k == CHOOSE i \in 1..Len(s) :
                  s[i] = sep /\ \A j \in 1..(i - 1) : s[j] # sep
       IN <<SubSeq(s, 1, k - 1)>> \o split(SubSeq(s, k + 1, Len(s)), sep)

\* Array.prototype.join(sep).
RECURSIVE join(_, _)
join(parts, sep) ==
  IF parts = <<>> THEN <<>>
  ELSE IF Len(parts) = 1 THEN parts[1]
  ELSE parts[1] \o <<sep>> \o join(Tail(parts), sep)

RECURSIVE SelectNonEmpty(_)
SelectNonEmpty(parts) ==
  IF parts = <<>> THEN <<>>
  ELSE IF Len(Head(parts)) > 0
       THEN <<Head(parts)>> \o SelectNonEmpty(Tail(parts))
       ELSE SelectNonEmpty(Tail(parts))

\* The letters of the model's strings, in alphabetical order.
LowerCase ==
  <<"a", "b", "c", "d", "e", "g", "i", "m", "n", "o", "p", "r", "t", "u", "y">>

UpperCase ==
  <<"A", "B", "C", "D", "E", "G", "I", "M", "N", "O", "P", "R", "T", "U", "Y">>

\* The primary collation weight of a character: white space, then
\* punctuation, then the letters, a letter's two cases weighing the same.
PrimaryWeight(c) ==
  IF c = " " THEN 1
  ELSE IF c = "_" THEN 2
  ELSE IF c = "/" THEN 3
  ELSE 3 + (CHOOSE i \in 1..Len(LowerCase) : LowerCase[i] = c \/ UpperCase[i] = c)

\* a.localeCompare(b, undefined, { sensitivity: 'base' }): negative, zero or
\* positive; the strings are compared by primary weight, left to right (the
\* root collation, which no locale tailors for these characters).
RECURSIVE localeCompare(_, _)
localeCompare(a, b) ==
  IF a = <<>> /\ b = <<>> THEN 0
  ELSE IF a = <<>> THEN -1
  ELSE IF b = <<>> THEN 1
  ELSE IF PrimaryWeight(Head(a)) < PrimaryWeight(Head(b)) THEN -1
  ELSE IF PrimaryWeight(Head(a)) > PrimaryWeight(Head(b)) THEN 1
  ELSE localeCompare(Tail(a), Tail(b))

----------------------------------------------------------------------------
(* Tree items                                                              *)

UNGROUPED_LABEL == <<"U", "n", "g", "r", "o", "u", "p", "e", "d">>

\* '__commandDictionaryUngrouped__'
UNGROUPED_ID ==
  <<"_", "_", "c", "o", "m", "m", "a", "n", "d",
    "D", "i", "c", "t", "i", "o", "n", "a", "r", "y",
    "U", "n", "g", "r", "o", "u", "p", "e", "d", "_", "_">>

\* A mutant: the activation payload is the label.
CommandNodeLabelPayload(cmd) ==
  [kind |-> "CommandNode",
   cmd |-> cmd,
   label |-> cmd.label,
   description |-> cmd.description,
   tooltip |-> cmd.description,
   command |-> [command |-> "commandDictionary.insert", arguments |-> <<cmd.label>>],
   contextValue |-> "commandItem"]

CommandNode(cmd) ==
  [kind |-> "CommandNode",
   cmd |-> cmd,
   label |-> cmd.label,
   description |-> cmd.description,
   tooltip |-> cmd.description,
   command |-> [command |-> "commandDictionary.insert", arguments |-> <<cmd.insertText>>],
   contextValue |-> "commandItem"]

GroupNode(labelText, segments, isUngrouped) ==
  [kind |-> "GroupNode",
   label |-> labelText,
   labelText |-> labelText,
   segments |-> segments,
   isUngrouped |-> isUngrouped,
   id |-> IF isUngrouped THEN UNGROUPED_ID
          ELSE IF join(segments, "/") # <<>> THEN join(segments, "/")
          ELSE labelText]

----------------------------------------------------------------------------
(* CommandTreeProvider                                                     *)

\* A mutant: the segments are neither trimmed nor filtered.
parseGroupSegmentsRaw(group) ==
  IF group = Undefined \/ group = <<>> THEN <<>> ELSE split(group, "/")

parseGroupSegments(group) ==
  IF group = Undefined \/ group = <<>>
  THEN <<>>
  ELSE SelectNonEmpty([i \in 1..Len(split(group, "/")) |-> trim(split(group, "/")[i])])

\* Map.prototype.get on a Map of subgroups: the entry's index, 0 for none.
subgroupIndex(subgroups, segment) ==
  IF \E i \in 1..Len(subgroups) : subgroups[i][1] = segment
  THEN CHOOSE i \in 1..Len(subgroups) : subgroups[i][1] = segment
  ELSE 0

newGroupTree(label, segments) ==
  [label |-> label, segments |-> segments, subgroups |-> <<>>, commands |-> <<>>]

\* A mutant: the command is pushed on every node of its path.
RECURSIVE placeCommandOnEveryNode(_, _, _, _)
placeCommandOnEveryNode(node, pathSegments, currentPath, cmd) ==
  IF pathSegments = <<>>
  THEN [node EXCEPT !.commands = Append(@, cmd)]
  ELSE LET segment == Head(pathSegments)
           path == Append(currentPath, segment)
           k == subgroupIndex(node.subgroups, segment)
           next == IF k = 0 THEN newGroupTree(segment, path) ELSE node.subgroups[k][2]
           placed == placeCommandOnEveryNode(next, Tail(pathSegments), path, cmd)
           here == IF currentPath = <<>> THEN node.commands ELSE Append(node.commands, cmd)
       IN IF k = 0
          THEN [node EXCEPT !.subgroups = Append(@, <<segment, placed>>), !.commands = here]
          ELSE [node EXCEPT !.subgroups[k] = <<segment, placed>>, !.commands = here]

\* The inner loop of buildGroupTree and the push after it: walk from `node`
\* along pathSegments, creating the nodes not yet there, and push cmd on the
\* last one.
RECURSIVE placeCommand(_, _, _, _)
placeCommand(node, pathSegments, currentPath, cmd) ==
  IF pathSegments = <<>>
  THEN [node EXCEPT !.commands = Append(@, cmd)]
  ELSE LET segment == Head(pathSegments)
           path == Append(currentPath, segment)
           k == subgroupIndex(node.subgroups, segment)
           next == IF k = 0 THEN newGroupTree(segment, path) ELSE node.subgroups[k][2]
           placed == placeCommand(next, Tail(pathSegments), path, cmd)
       IN IF k = 0
          THEN [node EXCEPT !.subgroups = Append(@, <<segment, placed>>)]
          ELSE [node EXCEPT !.subgroups[k] = <<segment, placed>>]

RECURSIVE buildGroupTreeFrom(_, _)
buildGroupTreeFrom(root, items) ==
  IF items = <<>> THEN root
  ELSE buildGroupTreeFrom(
         placeCommand(root, parseGroupSegments(Head(items).group), <<>>, Head(items)),
         Tail(items))

buildGroupTree(items) == buildGroupTreeFrom(newGroupTree(<<>>, <<>>), items)

\* Array.prototype.sort is stable: an element goes after the elements that do
\* not compare greater than it.
sortedInsert(sorted, group) ==
  LET n == Cardinality({i \in 1..Len(sorted) : localeCompare(sorted[i].label, group.label) <= 0})
  IN SubSeq(sorted, 1, n) \o <<group>> \o SubSeq(sorted, n + 1, Len(sorted))

RECURSIVE sortGroups(_, _)
sortGroups(sorted, groups) ==
  IF groups = <<>> THEN sorted
  ELSE sortGroups(sortedInsert(sorted, Head(groups)), Tail(groups))

\* A mutant: the headers in the Map's insertion order, unsorted.
createGroupNodesUnsorted(groups) ==
  [i \in 1..Len(groups) |-> GroupNode(groups[i][2].label, groups[i][2].segments, FALSE)]

createGroupNodes(groups) ==
  LET values == [i \in 1..Len(groups) |-> groups[i][2]]
      sorted == sortGroups(<<>>, values)
  IN [i \in 1..Len(sorted) |-> GroupNode(sorted[i].label, sorted[i].segments, FALSE)]

\* A mutant: a missing segment resolves to the node reached so far.
RECURSIVE findGroupLenient(_, _)
findGroupLenient(tree, segments) ==
  IF segments = <<>> THEN tree
  ELSE LET k == subgroupIndex(tree.subgroups, Head(segments))
       IN IF k = 0 THEN tree ELSE findGroupLenient(tree.subgroups[k][2], Tail(segments))

RECURSIVE findGroup(_, _)
findGroup(tree, segments) ==
  IF segments = <<>> THEN tree
  ELSE LET k == subgroupIndex(tree.subgroups, Head(segments))
       IN IF k = 0 THEN UndefinedTree ELSE findGroup(tree.subgroups[k][2], Tail(segments))

----------------------------------------------------------------------------
(* The configuration source                                                *)

\* What inspect() reports for one scope: no value, a value that is not an
\* array (settings.json accepts any JSON), or an array of records.
UndefinedValue == [defined |-> FALSE, isArray |-> FALSE, items |-> <<>>]

NotArrayValue == [defined |-> TRUE, isArray |-> FALSE, items |-> <<>>]

ArrayValue(items) == [defined |-> TRUE, isArray |-> TRUE, items |-> items]

\* cfg.inspect('commands') returning undefined.
NoInspect == [undefined |-> TRUE]

\* A mutant: the scopes looked at from the least specific one.
candidatesReversed ==
  <<"globalValue", "workspaceValue", "workspaceFolderValue",
    "globalLanguageValue", "workspaceLanguageValue", "workspaceFolderLanguageValue">>

\* The scopes in the order getConfiguredCommands looks at them.
candidates ==
  <<"workspaceFolderLanguageValue", "workspaceLanguageValue", "globalLanguageValue",
    "workspaceFolderValue", "workspaceValue", "globalValue">>

Scopes == Range(candidates)

NothingConfigured == [s \in Scopes |-> UndefinedValue]

Command(label, insertText, group) ==
  [label |-> label, insertText |-> insertText, description |-> Undefined, group |-> group]

\* The records of resources/defaultCommands.json that activate() loads.
defaultCommands ==
  <<Command(<<"D">>, <<"d", "e">>, Undefined), Command(<<"E">>, <<"e", "d">>, Undefined)>>

\* A mutant: an empty array counts as no value.
RECURSIVE firstNonEmptyCandidate(_, _)
firstNonEmptyCandidate(insp, scopes) ==
  IF scopes = <<>> THEN defaultCommands
  ELSE IF insp[Head(scopes)].defined /\ ~insp[Head(scopes)].isArray
       THEN defaultCommands
       ELSE IF insp[Head(scopes)].defined /\ insp[Head(scopes)].items # <<>>
       THEN insp[Head(scopes)].items
       ELSE firstNonEmptyCandidate(insp, Tail(scopes))

\* The loop over the candidates: the first one that is not undefined decides.
RECURSIVE firstDefinedCandidate(_, _)
firstDefinedCandidate(insp, scopes) ==
  IF scopes = <<>> THEN defaultCommands
  ELSE IF insp[Head(scopes)].defined
       THEN (IF insp[Head(scopes)].isArray
             THEN insp[Head(scopes)].items
             ELSE defaultCommands)
       ELSE firstDefinedCandidate(insp, Tail(scopes))

getConfiguredCommands ==
  IF inspected = NoInspect
  THEN defaultCommands
  ELSE firstDefinedCandidate(inspected, candidates)

----------------------------------------------------------------------------
(* getChildren                                                             *)

commandNodes(commands) == [i \in 1..Len(commands) |-> CommandNode(commands[i])]

\* A mutant: a header's own commands come before its subgroup headers.
getChildrenCommandsFirst(el) ==
  LET items == getConfiguredCommands
      tree == buildGroupTree(items)
  IN IF el = NoElement
     THEN IF Len(tree.subgroups) = 0
          THEN commandNodes(tree.commands)
          ELSE (IF Len(tree.commands) > 0
                THEN <<GroupNode(UNGROUPED_LABEL, <<>>, TRUE)>>
                ELSE <<>>) \o createGroupNodes(tree.subgroups)
     ELSE IF el.kind = "GroupNode"
     THEN IF el.isUngrouped
          THEN commandNodes(tree.commands)
          ELSE LET group == findGroup(tree, el.segments)
               IN IF group = UndefinedTree
                  THEN <<>>
                  ELSE commandNodes(group.commands) \o createGroupNodes(group.subgroups)
     ELSE <<>>

getChildren(el) ==
  LET items == getConfiguredCommands
      tree == buildGroupTree(items)
  IN IF el = NoElement
     THEN IF Len(tree.subgroups) = 0
          THEN commandNodes(tree.commands)
          ELSE (IF Len(tree.commands) > 0
                THEN <<GroupNode(UNGROUPED_LABEL, <<>>, TRUE)>>
                ELSE <<>>) \o createGroupNodes(tree.subgroups)
     ELSE IF el.kind = "GroupNode"
     THEN IF el.isUngrouped
          THEN commandNodes(tree.commands)
          ELSE LET group == findGroup(tree, el.segments)
               IN IF group = UndefinedTree
                  THEN <<>>
                  ELSE createGroupNodes(group.subgroups) \o commandNodes(group.commands)
     ELSE <<>>

\* refresh(): one firing of onDidChangeTreeData.
refresh(n) == n + 1

\* A mutant: every configuration change refreshes, whatever it affects.
onDidChangeConfigurationAlways(n, affectsCommands) == refresh(n)

\* The onDidChangeConfiguration listener that activate() registers.
onDidChangeConfiguration(n, affectsCommands) ==
  IF affectsCommands THEN refresh(n) ELSE n

----------------------------------------------------------------------------------------------------------------------------------------
(* Inputs                                                                  *)

\* The size of a configured list: its records plus the characters of their
\* group strings (a reserved word counts as one).
MaxSize == 6

\* The most records in a list of the flat and the nested families.
MaxRecords == 3

\* The longest group string of the family of respelled groups.
MaxGroupLen == 3

\* The most refresh signals followed.
MaxEmits == 2

\* The characters of a group string: a lower-case and an upper-case name,
\* the separator and white space.
Alphabet == {"a", "B", "/", " "}

\* The labels and insert texts of the records, by position in the list: the
\* labels are not in alphabetical order.
Snippets ==
  <<[label |-> <<"m">>, insertText |-> <<"m", "t">>],
    [label |-> <<"c">>, insertText |-> <<"c", "t">>],
    [label |-> <<"y">>, insertText |-> <<"y", "t">>],
    [label |-> <<"b">>, insertText |-> <<"b", "t">>],
    [label |-> <<"r">>, insertText |-> <<"r", "t">>],
    [label |-> <<"e">>, insertText |-> <<"e", "t">>],
    [label |-> <<"p">>, insertText |-> <<"p", "t">>],
    [label |-> <<"d">>, insertText |-> <<"d", "t">>]>>

\* The shape of a record's group: none (-1), the word "Ungrouped" (-2), the
\* word '__commandDictionaryUngrouped__' (-3), or n characters of Alphabet.
NoGroupShape == 0 - 1

LabelWordShape == 0 - 2

IdWordShape == 0 - 3

ShapeSize(c) == IF c = NoGroupShape THEN 0 ELSE IF c < NoGroupShape THEN 1 ELSE c

ShapeChars(c) == IF c < 0 THEN 0 ELSE c

\* The size, and the characters, of the first n shapes.
RECURSIVE TotalSize(_, _)
TotalSize(shape, n) == IF n = 0 THEN 0 ELSE ShapeSize(shape[n]) + TotalSize(shape, n - 1)

RECURSIVE TotalChars(_, _)
TotalChars(shape, n) == IF n = 0 THEN 0 ELSE ShapeChars(shape[n]) + TotalChars(shape, n - 1)

\* The group of record i: its shape filled with the characters that follow
\* those of the records before it.
GroupOf(shape, chars, i) ==
  IF shape[i] = NoGroupShape THEN Undefined
  ELSE IF shape[i] = LabelWordShape THEN UNGROUPED_LABEL
  ELSE IF shape[i] = IdWordShape THEN UNGROUPED_ID
  ELSE LET before == TotalChars(shape, i - 1)
       IN [j \in 1..shape[i] |-> chars[before + j]]

CommandList(k, shape, chars) ==
  [i \in 1..k |-> Command(Snippets[i].label, Snippets[i].insertText, GroupOf(shape, chars, i))]

\* Flat lists: no record has a group, the same snippet may come twice, in
\* any order.
FlatLists ==
  UNION {[1..k -> {Command(Snippets[i].label, Snippets[i].insertText, Undefined) : i \in 1..2}] :
         k \in 0..MaxRecords}

\* Nested lists: groups up to three levels deep, with sibling subgroups.
NestedGroups ==
  {Undefined, <<"a">>, <<"B">>, <<"a", "/", "B">>, <<"a", "/", "a">>,
   <<"a", "/", "B", "/", "a">>}

NestedLists ==
  UNION {{[i \in 1..k |-> Command(Snippets[i].label, Snippets[i].insertText, groups[i])] :
            groups \in [1..k -> NestedGroups]} :
         k \in 1..MaxRecords}

\* The string g with the character c put in after position p.
InsertAt(g, p, c) == SubSeq(g, 1, p) \o <<c>> \o SubSeq(g, p + 1, Len(g))

\* What each scope holds when it holds a list, in the model of the view kept
\* in step with the settings.
ScopeList(scope) ==
  CASE scope = "globalValue" ->
         <<Command(<<"g", "1">>, <<"g", "t", "1">>, <<"a">>),
           Command(<<"g", "2">>, <<"g", "t", "2">>, <<"a", "/", "B">>),
           Command(<<"g", "3">>, <<"g", "t", "3">>, Undefined)>>
    [] scope = "workspaceValue" ->
         <<Command(<<"w", "1">>, <<"w", "t", "1">>, <<"a", "/", "B">>),
           Command(<<"w", "2">>, <<"w", "t", "2">>, <<"B">>)>>
    [] scope = "workspaceFolderValue" ->
         <<Command(<<"f", "1">>, <<"f", "t", "1">>, Undefined)>>
    [] scope = "globalLanguageValue" ->
         <<Command(<<"l", "1">>, <<"l", "t", "1">>, <<"B">>),
           Command(<<"l", "2">>, <<"l", "t", "2">>, Undefined)>>
    [] scope = "workspaceLanguageValue" ->
         <<Command(<<"k", "1">>, <<"k", "t", "1">>, <<"a">>)>>
    [] scope = "workspaceFolderLanguageValue" ->
         <<Command(<<"j", "1">>, <<"j", "t", "1">>, <<"B", "/", "a">>),
           Command(<<"j", "2">>, <<"j", "t", "2">>, <<"a">>)>>

ScopeValues(scope) ==
  {UndefinedValue, NotArrayValue, ArrayValue(<<>>), ArrayValue(ScopeList(scope))}

----------------------------------------------------------------------------
(* Handlers                                                                *)

\* The view asks for the children of the root or of an item it holds.
GetChildren(el) ==
  /\ element' = el
  /\ result' = getChildren(el)
  /\ event' = "getChildren"
  /\ UNCHANGED <<inspected, emitted>>

\* The commandDictionary.refresh command.
RefreshCommand ==
  /\ emitted < MaxEmits
  /\ emitted' = refresh(emitted)
  /\ event' = "refreshCommand"
  /\ UNCHANGED <<inspected, element, result>>

\* commandDictionary.commands is given another value in one scope; the
\* configuration source then reports a change that affects it.
CommandsChanged(scope, value) ==
  /\ inspected # NoInspect
  /\ inspected[scope] # value
  /\ emitted < MaxEmits
  /\ inspected' = [inspected EXCEPT ![scope] = value]
  /\ emitted' = onDidChangeConfiguration(emitted, TRUE)
  /\ event' = "commandsChanged"
  /\ UNCHANGED <<element, result>>

\* Some other setting changes: the reported change does not affect
\* commandDictionary.commands.
OtherSettingChanged ==
  /\ emitted' = onDidChangeConfiguration(emitted, FALSE)
  /\ emitted' <= MaxEmits
  /\ event' = "otherSettingChanged"
  /\ UNCHANGED <<inspected, element, result>>

----------------------------------------------------------------------------
(* The view's queries over one configuration                               *)

\* After activate(): nothing asked yet, nothing emitted; the user settings
\* hold the list, which is a flat list, a nested list, a list of a given
\* size, or a group string and the same string with one more '/' or ' '.
Init ==
  /\ \/ \E items \in FlatLists \cup NestedLists :
          inspected = [NothingConfigured EXCEPT !["globalValue"] = ArrayValue(items)]
     \/ \E k \in 1..MaxSize :
          \E shape \in [1..k -> IdWordShape..(MaxSize - k)] :
            /\ TotalSize(shape, k) <= MaxSize - k
            /\ \E chars \in [1..TotalChars(shape, k) -> Alphabet] :
                 inspected = [NothingConfigured EXCEPT
                                !["globalValue"] = ArrayValue(CommandList(k, shape, chars))]
     \/ \E n \in 0..MaxGroupLen : \E g \in [1..n -> Alphabet] :
          \E p \in 0..n : \E c \in {"/", " "} :
            inspected = [NothingConfigured EXCEPT
                           !["globalValue"] = ArrayValue(
                              <<Command(Snippets[1].label, Snippets[1].insertText, InsertAt(g, p, c)),
                                Command(Snippets[2].label, Snippets[2].insertText, g)>>)]
  /\ element = NoElement
  /\ result = <<>>
  /\ emitted = 0
  /\ event = "activate"

Next == \E el \in {NoElement} \cup Range(result) : GetChildren(el)

Spec == Init /\ [][Next]_vars

----------------------------------------------------------------------------
(* The view kept in step with the settings                                 *)

SyncInit ==
  /\ inspected \in {NoInspect, NothingConfigured}
  /\ element = NoElement
  /\ result = <<>>
  /\ emitted = 0
  /\ event = "activate"

SyncNext ==
  \/ \E el \in {NoElement} \cup Range(result) : GetChildren(el)
  \/ RefreshCommand
  \/ \E scope \in Scopes : \E value \in ScopeValues(scope) : CommandsChanged(scope, value)
  \/ OtherSettingChanged

SyncSpec == SyncInit /\ [][SyncNext]_vars

----------------------------------------------------------------------------
(* What the claims speak of                                                *)

\* The path a record's group parses to.
PathOf(cmd) == parseGroupSegments(cmd.group)

IsPrefix(p, q) == Len(p) <= Len(q) /\ SubSeq(q, 1, Len(p)) = p

\* The last call was getChildren(); getChildren() with no element.
Queried == event = "getChildren"

RootQueried == Queried /\ element = NoElement

\* The last call was getChildren(header) for a real group header.
HeaderQueried == Queried /\ element.kind = "GroupNode" /\ ~element.isUngrouped

IsRealHeader(item) == item.kind = "GroupNode" /\ ~item.isUngrouped

IsUngroupedHeader(item) == item.kind = "GroupNode" /\ item.isUngrouped

\* The leaf item of a record, the header of a path, the synthetic header.
ExpectedLeaf(cmd) ==
  [kind |-> "CommandNode",
   cmd |-> cmd,
   label |-> cmd.label,
   description |-> cmd.description,
   tooltip |-> cmd.description,
   command |-> [command |-> "commandDictionary.insert", arguments |-> <<cmd.insertText>>],
   contextValue |-> "commandItem"]

ExpectedHeader(segments) ==
  [kind |-> "GroupNode",
   label |-> segments[Len(segments)],
   labelText |-> segments[Len(segments)],
   segments |-> segments,
   isUngrouped |-> FALSE,
   id |-> join(segments, "/")]

UngroupedHeader ==
  [kind |-> "GroupNode",
   label |-> UNGROUPED_LABEL,
   labelText |-> UNGROUPED_LABEL,
   segments |-> <<>>,
   isUngrouped |-> TRUE,
   id |-> UNGROUPED_ID]

\* The leaves of the records whose path is p, in the order of the list.
RECURSIVE LeavesAt(_, _)
LeavesAt(items, p) ==
  IF items = <<>> THEN <<>>
  ELSE (IF PathOf(Head(items)) = p THEN <<ExpectedLeaf(Head(items))>> ELSE <<>>)
       \o LeavesAt(Tail(items), p)

\* The segments that follow p in the paths of the list.
ChildSegments(items, p) ==
  {PathOf(items[i])[Len(p) + 1] :
     i \in {j \in 1..Len(items) :
              IsPrefix(p, PathOf(items[j])) /\ Len(PathOf(items[j])) > Len(p)}}

PathExists(items, p) == \E i \in 1..Len(items) : IsPrefix(p, PathOf(items[i]))

FirstIndex(items, p) ==
  CHOOSE i \in 1..Len(items) :
    IsPrefix(p, PathOf(items[i])) /\ \A j \in 1..(i - 1) : ~IsPrefix(p, PathOf(items[j]))

\* Case-insensitive order of labels: by the letters, their case set aside.
Key(label) == [i \in 1..Len(label) |-> PrimaryWeight(label[i])]

RECURSIVE LexLess(_, _)
LexLess(a, b) ==
  IF b = <<>> THEN FALSE
  ELSE IF a = <<>> THEN TRUE
  ELSE IF Head(a) < Head(b) THEN TRUE
  ELSE IF Head(a) > Head(b) THEN FALSE
  ELSE LexLess(Tail(a), Tail(b))

CaseInsensitiveLeq(a, b) == ~LexLess(Key(b), Key(a))

\* The real headers of a result are in case-insensitive order.
HeadersOrdered(items) ==
  \A m \in 1..Len(items) : \A n \in 1..Len(items) :
    (m < n /\ IsRealHeader(items[m]) /\ IsRealHeader(items[n]))
      => CaseInsensitiveLeq(items[m].label, items[n].label)

\* The headers of the subgroups of p: in case-insensitive order, and where
\* two labels differ in case only, the one the list names first goes first.
RECURSIVE HeadersInOrder(_, _, _)
HeadersInOrder(items, p, segments) ==
  IF segments = {} THEN <<>>
  ELSE LET first ==
             CHOOSE x \in segments : \A y \in segments \ {x} :
               \/ LexLess(Key(x), Key(y))
               \/ /\ ~LexLess(Key(y), Key(x))
                  /\ FirstIndex(items, Append(p, x)) < FirstIndex(items, Append(p, y))
       IN <<ExpectedHeader(Append(p, first))>>
          \o HeadersInOrder(items, p, segments \ {first})

\* What a provider answers for a node of a given path, from the list alone.
Projection(items, el) ==
  IF el = NoElement
  THEN IF \A i \in 1..Len(items) : PathOf(items[i]) = <<>>
       THEN LeavesAt(items, <<>>)
       ELSE (IF \E i \in 1..Len(items) : PathOf(items[i]) = <<>>
             THEN <<UngroupedHeader>>
             ELSE <<>>) \o HeadersInOrder(items, <<>>, ChildSegments(items, <<>>))
  ELSE IF el.kind = "GroupNode"
  THEN IF el.isUngrouped
       THEN LeavesAt(items, <<>>)
       ELSE IF ~PathExists(items, el.segments)
       THEN <<>>
       ELSE HeadersInOrder(items, el.segments, ChildSegments(items, el.segments))
            \o LeavesAt(items, el.segments)
  ELSE <<>>

RootHoldsCommands(items) == \E i \in 1..Len(items) : PathOf(items[i]) = <<>>

SomePath(items) == \E i \in 1..Len(items) : PathOf(items[i]) # <<>>

----------------------------------------------------------------------------
(* C1: the root's headers                                                  *)

\* The root result is made of headers, the real ones in case-insensitive
\* order, and the "Ungrouped" header is there, first, exactly when the root
\* holds commands of its own.
RootIsHeaders(items) ==
  /\ \A n \in 1..Len(result) : result[n].kind = "GroupNode"
  /\ HeadersOrdered(result)
  /\ (\E n \in 1..Len(result) : IsUngroupedHeader(result[n])) <=> RootHoldsCommands(items)
  /\ \A n \in 1..Len(result) : IsUngroupedHeader(result[n]) => n = 1

\* C1 as stated: whenever some record has a group value (a group that is
\* not blank), getChildren() returns headers in case-insensitive order, with
\* "Ungrouped" first if and only if the root holds direct commands.
C1_AsStated ==
  (RootQueried /\ \E i \in 1..Len(getConfiguredCommands) :
                    /\ getConfiguredCommands[i].group # Undefined
                    /\ trim(getConfiguredCommands[i].group) # <<>>)
    => RootIsHeaders(getConfiguredCommands)

\* C1 amended: whenever some record's group parses to a path that is not
\* empty, getChildren() returns headers in case-insensitive order, with
\* "Ungrouped" first if and only if the root holds direct commands.
C1_RootHeaders ==
  (RootQueried /\ SomePath(getConfiguredCommands)) => RootIsHeaders(getConfiguredCommands)

\* "Ungrouped" followed by two headers whose order is not that of the list.
C1_Witness ==
  /\ RootQueried
  /\ Len(result) = 3
  /\ IsUngroupedHeader(result[1])
  /\ result[2].label = <<"a">>
  /\ result[3].label = <<"B">>
  /\ getConfiguredCommands[1].group = <<"B">>

----------------------------------------------------------------------------
(* C2: the flat list                                                       *)

\* C2: when no record has a group, getChildren() returns one leaf per
\* record, in the order of the list, each with the record's insertText as
\* the argument of its command, and no header.
C2_FlatList ==
  (RootQueried /\ \A i \in 1..Len(getConfiguredCommands) :
                    getConfiguredCommands[i].group = Undefined)
    => /\ Len(result) = Len(getConfiguredCommands)
       /\ \A i \in 1..Len(result) :
            /\ result[i].kind = "CommandNode"
            /\ result[i].cmd = getConfiguredCommands[i]
            /\ result[i].label = getConfiguredCommands[i].label
            /\ result[i].command.command = "commandDictionary.insert"
            /\ result[i].command.arguments = <<getConfiguredCommands[i].insertText>>

\* Three leaves whose labels are not in alphabetical order.
C2_Witness ==
  /\ RootQueried
  /\ Len(result) = 3
  /\ \A i \in 1..3 : result[i].kind = "CommandNode" /\ result[i].cmd.group = Undefined
  /\ result[1].label = <<"m">>
  /\ result[2].label = <<"c">>
  /\ result[3].label = <<"m">>

----------------------------------------------------------------------------
(* C3: every record on exactly one path                                    *)

LeafShown(cmd) == \E n \in 1..Len(result) : result[n] = ExpectedLeaf(cmd)

HeaderShown(segments) == \E n \in 1..Len(result) : result[n] = ExpectedHeader(segments)

\* C3: a record whose group parses to s1..sn (n >= 1) is a leaf of the
\* result of getChildren(node) exactly when node is the header of that path,
\* and each step of the descent is offered: the root's result holds the
\* header of s1, and the result of the header of s1..sk, k < n, holds the
\* header of s1..sk+1.  A record of the empty path is a leaf of the root's
\* result when the list has no group at all, else of the result of the
\* "Ungrouped" header, which the root's result then holds, and of no other.
C3_OnePath ==
  Queried =>
    \A i \in 1..Len(getConfiguredCommands) :
      LET cmd == getConfiguredCommands[i]
          p == PathOf(cmd)
      IN IF Len(p) >= 1
         THEN /\ LeafShown(cmd) <=> (HeaderQueried /\ element.segments = p)
              /\ element = NoElement => HeaderShown(SubSeq(p, 1, 1))
              /\ (HeaderQueried /\ IsPrefix(element.segments, p)
                    /\ Len(element.segments) < Len(p))
                   => HeaderShown(SubSeq(p, 1, Len(element.segments) + 1))
         ELSE /\ LeafShown(cmd) <=> \/ element = NoElement /\ ~SomePath(getConfiguredCommands)
                                    \/ IsUngroupedHeader(element)
              /\ (element = NoElement /\ SomePath(getConfiguredCommands))
                   => \E n \in 1..Len(result) : result[n] = UngroupedHeader

\* The leaf of a record of group "a/B/a", reached through three headers.
C3_Witness ==
  /\ HeaderQueried
  /\ element.segments = <<<<"a">>, <<"B">>, <<"a">>>>
  /\ \E n \in 1..Len(result) :
       result[n].kind = "CommandNode" /\ PathOf(result[n].cmd) = element.segments

----------------------------------------------------------------------------
(* C5: the identity of "Ungrouped"                                         *)

\* C5: where the configuration makes getChildren() return the "Ungrouped"
\* header, every real header returned has its path joined by '/' as its id,
\* and that id is not the id of the "Ungrouped" header.
C5_DistinctIds ==
  (Queried /\ RootHoldsCommands(getConfiguredCommands) /\ SomePath(getConfiguredCommands))
    => \A n \in 1..Len(result) :
         IsRealHeader(result[n])
           => /\ result[n].id = join(result[n].segments, "/")
              /\ result[n].id # UngroupedHeader.id

----------------------------------------------------------------------------
(* C6: spellings of one path                                               *)

\* Position p of g is at the edge of a segment: only white space lies
\* between it and the start, the end or a separator.
AtLeftEdge(g, p) ==
  \E q \in 0..p : (q = 0 \/ g[q] = "/") /\ \A j \in (q + 1)..p : g[j] = " "

AtRightEdge(g, p) ==
  \E q \in (p + 1)..(Len(g) + 1) :
    (q = Len(g) + 1 \/ g[q] = "/") /\ \A j \in (p + 1)..(q - 1) : g[j] = " "

\* h is g with one more empty segment or one more white space around a
\* segment: a '/' or a ' ' put in at the edge of a segment.
Expands(g, h) ==
  /\ g # Undefined
  /\ h # Undefined
  /\ Len(h) = Len(g) + 1
  /\ \E p \in 0..Len(g) : \E c \in {"/", " "} :
       (AtLeftEdge(g, p) \/ AtRightEdge(g, p)) /\ h = InsertAt(g, p, c)

\* The paths of the nodes of the tree that hold the record.
RECURSIVE PlacedAt(_, _)
PlacedAt(tree, cmd) ==
  (IF cmd \in Range(tree.commands) THEN {tree.segments} ELSE {})
  \cup UNION {PlacedAt(tree.subgroups[i][2], cmd) : i \in 1..Len(tree.subgroups)}

\* C6: two records of which one group string is the other with an extra
\* empty segment or extra white space around a segment are placed at the
\* same node of the tree, and a result of getChildren holds both or neither.
C6_PathCollapsing ==
  \A i \in 1..Len(getConfiguredCommands) : \A j \in 1..Len(getConfiguredCommands) :
    Expands(getConfiguredCommands[i].group, getConfiguredCommands[j].group)
      => /\ PlacedAt(buildGroupTree(getConfiguredCommands), getConfiguredCommands[i])
              = PlacedAt(buildGroupTree(getConfiguredCommands), getConfiguredCommands[j])
         /\ Queried => (LeafShown(getConfiguredCommands[i]) <=> LeafShown(getConfiguredCommands[j]))

\* Groups "a//B" and "a/B" under the one header of the path a, B.
C6_Witness ==
  /\ HeaderQueried
  /\ element.segments = <<<<"a">>, <<"B">>>>
  /\ Len(getConfiguredCommands) = 2
  /\ getConfiguredCommands[1].group = <<"a", "/", "/", "B">>
  /\ getConfiguredCommands[2].group = <<"a", "/", "B">>
  /\ LeafShown(getConfiguredCommands[1])
  /\ LeafShown(getConfiguredCommands[2])

----------------------------------------------------------------------------
(* C10: the children of a header                                           *)

\* C10: getChildren(header), the header's path being in the tree, returns
\* the headers of the immediate subgroups, in case-insensitive order, and
\* after them the leaves of the records of that very path, in the order of
\* the list.
C10_HeaderChildren ==
  (HeaderQueried /\ PathExists(getConfiguredCommands, element.segments))
    => LET p == element.segments
           subs == ChildSegments(getConfiguredCommands, p)
           h == Cardinality(subs)
           leaves == LeavesAt(getConfiguredCommands, p)
       IN /\ Len(result) = h + Len(leaves)
          /\ \A n \in 1..h :
               /\ IsRealHeader(result[n])
               /\ result[n].segments = Append(p, result[n].label)
          /\ {result[n].label : n \in 1..h} = subs
          /\ HeadersOrdered(SubSeq(result, 1, h))
          /\ SubSeq(result, h + 1, Len(result)) = leaves

\* Header "a" with the subgroups "a" and "B", named in the other order, and
\* a command of its own.
C10_Witness ==
  /\ HeaderQueried
  /\ element.segments = <<<<"a">>>>
  /\ Len(result) = 3
  /\ getConfiguredCommands[1].group = <<"a", "/", "B">>
  /\ result[1].label = <<"a">>
  /\ result[2].label = <<"B">>
  /\ result[3].kind = "CommandNode"

----------------------------------------------------------------------------
(* C4: the answer follows the settings                                     *)

\* C4: whatever was changed, refreshed and asked before, the result of
\* getChildren(node) is what the current list gives for the node's path (or
\* its Ungrouped flag), also for a header handed out under an earlier list;
\* a header whose path the current list does not have yields the empty list.
C4_CurrentConfiguration ==
  Queried => result = Projection(getConfiguredCommands, element)

\* A header handed out before a change, whose path the list no longer has.
C4_Witness ==
  /\ HeaderQueried
  /\ emitted >= 1
  /\ ~PathExists(getConfiguredCommands, element.segments)
  /\ getConfiguredCommands # <<>>
  /\ result = <<>>

----------------------------------------------------------------------------
(* C7 and C9: which list is read                                           *)

\* The scopes from the most to the least specific.
SpecificityRank ==
  <<"workspaceFolderLanguageValue", "workspaceLanguageValue", "globalLanguageValue",
    "workspaceFolderValue", "workspaceValue", "globalValue">>

AnyScopeSet ==
  inspected # NoInspect /\ \E s \in Scopes : inspected[s].defined

\* The most specific scope that has a value set.
MostSpecificSet ==
  SpecificityRank[CHOOSE k \in 1..Len(SpecificityRank) :
                    /\ inspected[SpecificityRank[k]].defined
                    /\ \A j \in 1..(k - 1) : ~inspected[SpecificityRank[j]].defined]

\* What getChildren() returns when it is computed from the defaults.
DefaultRoot == Projection(defaultCommands, NoElement)

\* C7 as stated: getChildren() is computed from the bundled defaults only
\* when no scope has a value set.
C7_AsStated ==
  (RootQueried /\ result = DefaultRoot) => ~AnyScopeSet

\* C7 amended: getChildren() is computed from the bundled defaults only when
\* no scope has a value set or the most specific scope that has one holds a
\* value that is not an array.
C7_DefaultsOnlyWhen ==
  (RootQueried /\ result = DefaultRoot)
    => (~AnyScopeSet \/ ~inspected[MostSpecificSet].isArray)

\* The defaults shown while the user settings hold a list: the workspace
\* holds a value that is not an array.
C7_Witness ==
  /\ RootQueried
  /\ result = DefaultRoot
  /\ inspected # NoInspect
  /\ inspected["workspaceValue"] = NotArrayValue
  /\ inspected["globalValue"] = ArrayValue(ScopeList("globalValue"))

\* C9 as stated: getConfiguredCommands returns the value of the most
\* specific scope that holds a value.
C9_AsStated ==
  AnyScopeSet => ArrayValue(getConfiguredCommands) = inspected[MostSpecificSet]

\* C9 amended: getConfiguredCommands returns, unmerged, the value of the most
\* specific scope that has a value set, an empty array too; when that value
\* is not an array, or no scope has a value set, it returns the defaults.
C9_MostSpecificScope ==
  getConfiguredCommands =
    IF AnyScopeSet /\ inspected[MostSpecificSet].isArray
    THEN inspected[MostSpecificSet].items
    ELSE defaultCommands

\* The workspace's list read, and none of the user's, while both are set.
C9_Witness ==
  /\ RootQueried
  /\ inspected # NoInspect
  /\ inspected["workspaceValue"] = ArrayValue(ScopeList("workspaceValue"))
  /\ inspected["globalValue"] = ArrayValue(ScopeList("globalValue"))
  /\ result = Projection(ScopeList("workspaceValue"), NoElement)
  /\ getConfiguredCommands = ScopeList("workspaceValue")
  /\ \A i \in 1..Len(getConfiguredCommands) :
       getConfiguredCommands[i] \notin Range(ScopeList("globalValue"))

----------------------------------------------------------------------------
(* C8: the refresh signal                                                  *)

\* C8: a step emits one refresh signal when it is a commandDictionary.refresh
\* command or a configuration change that affects commandDictionary.commands,
\* and none when it is any other configuration change or a query.
C8_RefreshSignal ==
  [][emitted' = emitted + (IF event' \in {"refreshCommand", "commandsChanged"} THEN 1 ELSE 0)]_vars

\* Two signals emitted, and a change of another setting that emitted none.
C8_Witness ==
  /\ emitted = 2
  /\ event = "otherSettingChanged"
  /\ inspected # NoInspect
  /\ inspected # NothingConfigured

====
